---- MODULE Spec2Model ----
(***************************************************************************)
(* Model of the CreateArchitect AI router (aiRouter.js) and the reply      *)
(* style store (userProfile.js): the chat, style and schematic handlers,   *)
(* run as concurrent requests that are suspended only at their awaited     *)
(* model calls.                                                            *)
(***************************************************************************)
EXTENDS Integers, Sequences, FiniteSets, TLC

(* ------------------------------ bounds --------------------------------- *)

\* request slots that can be in flight at the same time
NumSlots == 2
\* chat requests with a project name that a one-at-a-time run lets start
MaxProjectChats == 4
\* chat requests with a project name that an overlapping run lets start
MaxOverlapChats == 2
\* how many characters the long message exceeds the history truncation by
LongExtra == 3

(* ------------------------- JavaScript values --------------------------- *)

Undef == [t |-> "undefined", n |-> 0, s |-> ""]
Null == [t |-> "null", n |-> 0, s |-> ""]
Str(x) == [t |-> "string", n |-> 0, s |-> x]
Num(k) == [t |-> "number", n |-> k, s |-> ""]

\* a plain object or parsed JSON object, fields a function from its own keys
Object(fields) == [t |-> "object", n |-> 0, s |-> "", f |-> fields]

\* JavaScript truthiness of a value (the !x, x || y and if (x) tests)
Truthy(v) ==
  \/ v.t = "string" /\ v.s # ""
  \/ v.t = "number" /\ v.n # 0
  \/ v.t = "object"

\* v.key throws a TypeError exactly when v is null or undefined
PropThrows(v) == v.t \in {"null", "undefined"}

\* v?.key (and v.key where it does not throw)
OptProp(v, key) ==
  IF v.t = "object" /\ key \in DOMAIN v.f THEN v.f[key] ELSE Undef

\* typeof v === "string"
IsString(v) == v.t = "string"

\* template-literal / String() rendering of a value
ToStr(v) ==
  CASE v.t = "string" -> v.s
    [] v.t = "number" -> ToString(v.n)
    [] v.t = "null" -> "null"
    [] OTHER -> "undefined"

\* obj.key of a plain object held as a function from its own keys
Get(obj, key) == IF key \in DOMAIN obj THEN obj[key] ELSE Undef

EmptyObj == [k \in {} |-> Undef]

(* ------------------------------- text ---------------------------------- *)

Min(a, b) == IF a < b THEN a ELSE b
Max(a, b) == IF a > b THEN a ELSE b

UpperChars == "ABCDEFGHIJKLMNOPQRSTUVWXYZ"
LowerChars == "abcdefghijklmnopqrstuvwxyz"

LowerChar(c) ==
  IF \E i \in 1..Len(UpperChars) : SubSeq(UpperChars, i, i) = c
  THEN LET i == CHOOSE j \in 1..Len(UpperChars) : SubSeq(UpperChars, j, j) = c
       IN SubSeq(LowerChars, i, i)
  ELSE c

RECURSIVE ToLowerCase(_)
\* String.prototype.toLowerCase, half by half
ToLowerCase(s) ==
  IF Len(s) = 0 THEN ""
  ELSE IF Len(s) = 1 THEN LowerChar(s)
  ELSE LET h == Len(s) \div 2
       IN ToLowerCase(SubSeq(s, 1, h)) \o ToLowerCase(SubSeq(s, h + 1, Len(s)))

\* String.prototype.includes
Includes(s, k) ==
  \E i \in 1..(Len(s) - Len(k) + 1) : SubSeq(s, i, i + Len(k) - 1) = k

\* String.prototype.slice(0, n) and Array.prototype.slice(0, n)
SliceTo(s, n) == SubSeq(s, 1, Min(n, Len(s)))

\* Array.prototype.slice(-n)
SliceLast(a, n) == SubSeq(a, Max(1, Len(a) - n + 1), Len(a))

RECURSIVE Join(_, _)
\* Array.prototype.join(sep) of an array of strings
Join(parts, sep) ==
  IF Len(parts) = 0 THEN ""
  ELSE IF Len(parts) = 1 THEN parts[1]
  ELSE parts[1] \o sep \o Join(Tail(parts), sep)

\* Array.prototype.filter(Boolean) of an array of strings
FilterNonEmpty(parts) == SelectSeq(parts, LAMBDA p : p # "")

RECURSIVE Repeat(_, _)
\* String.prototype.repeat
Repeat(c, n) ==
  IF n = 0 THEN ""
  ELSE IF n = 1 THEN c
  ELSE Repeat(c, n \div 2) \o Repeat(c, n - (n \div 2))

(* --------------------------- userProfile.js ---------------------------- *)

Fields == {"tone", "detail", "emojis", "formatting"}

defaultProfile ==
  [tone |-> Str("friendly"), detail |-> Str("medium"),
   emojis |-> Str("some"), formatting |-> Str("markdown")]

\* { ...a, ...b }: every own key of b, an undefined value included, overrides a
Spread(a, b) ==
  [k \in DOMAIN a \cup DOMAIN b |-> IF k \in DOMAIN b THEN b[k] ELSE a[k]]

\* JSON.parse(JSON.stringify(obj)): keys whose value is undefined are dropped
JsonRoundTrip(obj) == [k \in {j \in DOMAIN obj : obj[j].t # "undefined"} |-> obj[k]]

\* the object saveUserProfile builds, writes and returns
MergedProfile(style) == Spread(defaultProfile, style)


\* fs.writeFileSync(PROFILE_PATH, JSON.stringify(obj)) as the file's new state
WrittenFile(obj) == [st |-> "json", obj |-> JsonRoundTrip(obj)]

NoFile == [st |-> "missing", obj |-> EmptyObj]
CorruptFile == [st |-> "corrupt", obj |-> EmptyObj]

\* saveUserProfile(style) with the write succeeding (fsOk) or throwing
saveUserProfile(style, fsOk) ==
  [threw |-> ~fsOk,
   value |-> MergedProfile(style),
   file |-> WrittenFile(MergedProfile(style))]

\* loadUserProfile() on the file, the first-use write succeeding or throwing
loadUserProfile(file, fsOk) ==
  IF file.st = "missing"
  THEN [threw |-> ~fsOk, value |-> defaultProfile,
        file |-> IF fsOk THEN WrittenFile(defaultProfile) ELSE file,
        events |-> <<>>]
  ELSE IF file.st = "json"
  THEN [threw |-> FALSE, value |-> file.obj, file |-> file, events |-> <<>>]
  ELSE [threw |-> FALSE, value |-> defaultProfile, file |-> file,
        events |-> <<"console.error">>]

(* ----------------------------- aiRouter.js ----------------------------- *)

Modes == {"create", "pro", "general"}

\* the history window and the per-turn truncation of the chat handler
HistoryWindow == 4
HistoryContentMax == 200
\* the baseStress used when the blueprint gives none
DefaultBaseStress == 256

\* prompts.js: the texts are opaque to the router
CREATE_MODE_PROMPT == "<create persona>"
PRO_MODE_PROMPT == "<pro persona>"
GENERAL_MODE_PROMPT == "<general persona>"

styleInstruction(profile) ==
  "User style settings:\n- tone: " \o ToStr(Get(profile, "tone"))
  \o "\n- detail: " \o ToStr(Get(profile, "detail"))
  \o "\n- emojis: " \o ToStr(Get(profile, "emojis"))
  \o "\n- formatting: " \o ToStr(Get(profile, "formatting"))
  \o "\n\nRespect these settings while answering."

basePromptForMode(mode) ==
  IF mode = "create" THEN CREATE_MODE_PROMPT
  ELSE IF mode = "pro" THEN PRO_MODE_PROMPT
  ELSE GENERAL_MODE_PROMPT

\* what groq.chat.completions.create resolves to: it throws, or gives a
\* completion whose choices[0]?.message?.content is a string, null or missing
Threw == [threw |-> TRUE, content |-> Undef]
Content(v) == [threw |-> FALSE, content |-> v]

NoReplyText == "(no reply)"

\* groqChat's return value for a completion that did not throw
groqChat(completion) ==
  IF completion.content.t \in {"null", "undefined"}
  THEN NoReplyText
  ELSE completion.content.s

\* the texts the models answer with in this model
RouterCreate == "{\"mode\":\"create\"}"
RouterPro == "{\"mode\":\"pro\"}"
RouterGeneral == "{\"mode\":\"general\"}"
RouterBanana == "{\"mode\":\"banana\"}"
RouterNoMode == "{\"kind\":\"create\"}"
RouterNull == "null"
RouterNumber == "5"
RouterProse == "Sure! The mode is create."

BpFull == "{\"name\":\"mill\",\"stress\":{\"machines\":4,\"baseStress\":256}}"
BpNoBase == "{\"name\":\"mill\",\"stress\":{\"machines\":4}}"
BpZeroBase == "{\"name\":\"mill\",\"stress\":{\"machines\":2,\"baseStress\":0}}"
BpZeroMachines == "{\"name\":\"mill\",\"stress\":{\"machines\":0,\"baseStress\":128}}"
BpNoMachines == "{\"name\":\"mill\",\"stress\":{\"baseStress\":128}}"
BpProse == "Here is your blueprint: a water wheel mill."
BpTruncated == "{\"name\":\"mill\",\"stress\":{\"machines\":4,"

Parsed(v) == [ok |-> TRUE, value |-> v]
SyntaxError == [ok |-> FALSE, value |-> Undef]

Mill(stress) == Object([name |-> Str("mill"), stress |-> Object(stress)])

\* JSON.parse on the texts above; every other text used here (prose, truncated
\* text, the empty string, the no-reply placeholder) is not JSON and throws
JSONParse(text) ==
  CASE text = RouterCreate -> Parsed(Object([mode |-> Str("create")]))
    [] text = RouterPro -> Parsed(Object([mode |-> Str("pro")]))
    [] text = RouterGeneral -> Parsed(Object([mode |-> Str("general")]))
    [] text = RouterBanana -> Parsed(Object([mode |-> Str("banana")]))
    [] text = RouterNoMode -> Parsed(Object([kind |-> Str("create")]))
    [] text = RouterNull -> Parsed(Null)
    [] text = RouterNumber -> Parsed(Num(5))
    [] text = BpFull -> Parsed(Mill([machines |-> Num(4), baseStress |-> Num(256)]))
    [] text = BpNoBase -> Parsed(Mill([machines |-> Num(4)]))
    [] text = BpZeroBase -> Parsed(Mill([machines |-> Num(2), baseStress |-> Num(0)]))
    [] text = BpZeroMachines -> Parsed(Mill([machines |-> Num(0), baseStress |-> Num(128)]))
    [] text = BpNoMachines -> Parsed(Mill([baseStress |-> Num(128)]))
    [] OTHER -> SyntaxError

\* the keyword heuristic at the end of autoMode, on the lowercased message
KeywordMode(lower) ==
  IF Includes(lower, "create ") \/ Includes(lower, "factory") \/ Includes(lower, "kinetic")
  THEN "create"
  ELSE IF Includes(lower, "forge") \/ Includes(lower, "fabric") \/ Includes(lower, "gradle")
  THEN "pro"
  ELSE "general"

\* the try block of autoMode: the mode it returns, if it returns one, and
\* whether the catch block ran (console.warn)
RouterVerdict(completion) ==
  IF completion.threw THEN [returned |-> FALSE, mode |-> "", warned |-> TRUE]
  ELSE LET parsed == JSONParse(groqChat(completion))
       IN IF ~parsed.ok \/ PropThrows(parsed.value)
          THEN [returned |-> FALSE, mode |-> "", warned |-> TRUE]
          ELSE LET m == OptProp(parsed.value, "mode")
               IN IF m \in {Str("create"), Str("pro"), Str("general")}
                  THEN [returned |-> TRUE, mode |-> m.s, warned |-> FALSE]
                  ELSE [returned |-> FALSE, mode |-> "", warned |-> FALSE]

\* autoMode with the heuristic run on the message as typed, not lowercased
autoModeAsTyped(message, completion) ==
  LET v == RouterVerdict(completion)
  IN [mode |-> IF v.returned THEN v.mode ELSE KeywordMode(message),
      warned |-> v.warned]

\* autoMode(message) given what the router call came back with
autoMode(message, completion) ==
  LET v == RouterVerdict(completion)
  IN [mode |-> IF v.returned THEN v.mode ELSE KeywordMode(ToLowerCase(message)),
      warned |-> v.warned]

\* one rendered line of the history block
HistoryLine(m) == "[" \o m.role \o "] " \o SliceTo(m.content, HistoryContentMax)

\* historyText rendering every turn of the conversation, not the last ones
HistoryTextUnwindowed(conversation) ==
  IF Len(conversation) = 0 THEN ""
  ELSE "Recent project messages:\n"
       \o Join([i \in 1..Len(conversation) |-> HistoryLine(conversation[i])], "\n")

\* historyText of the chat handler for a loaded conversation
HistoryText(conversation) ==
  IF Len(conversation) = 0 THEN ""
  ELSE LET last == SliceLast(conversation, HistoryWindow)
       IN "Recent project messages:\n"
          \o Join([i \in 1..Len(last) |-> HistoryLine(last[i])], "\n")

\* systemContent of the chat handler
SystemContent(modePrompt, styleText, historyText) ==
  Join(FilterNonEmpty(<<modePrompt, styleText, historyText>>), "\n\n")

\* the chat handler's input validation
MissingMessage(message) == ~Truthy(message) \/ ~IsString(message)

\* the validation without its typeof test
MissingInstructionsUntyped(instructions) == ~Truthy(instructions)

\* the schematic handler's input validation
MissingInstructions(instructions) == ~Truthy(instructions) \/ ~IsString(instructions)


\* const { tone, detail, emojis, formatting } = req.body || {} and the object
\* literal handed to saveUserProfile: all four keys, undefined where absent
StyleFromBody(body) == [k \in Fields |-> Get(body, k)]

\* res.json(value) of a plain object, as the client reads it
Json(obj) == JsonRoundTrip(obj)

(* ------------- memory.js, schematicGenerator.js, createSim.js ---------- *)

\* appendConversation(name, role, content); id is the request that appended
appendConversation(h, role, content, id) ==
  Append(h, [role |-> role, content |-> content, id |-> id])

\* loadProject(name).conversation
loadProject(h) == h

\* estimateStress(machines, baseStress): opaque to the router
estimateStress(machines, baseStress) ==
  [t |-> "estimate", n |-> 0, s |-> "", machines |-> machines, baseStress |-> baseStress]

NoBlueprint == Undef

(* ------------------------------ the state ------------------------------ *)

VARIABLES
  profileFile,     \* data/userStyle.json
  history,         \* the project's conversation, in insertion order
  schematic,       \* the blueprint last saved to the project store
  blueprintFile,   \* the blueprint last saved as a standalone file
  pc,              \* per slot: where the request in it is suspended
  req,             \* per slot: the body of the request in flight
  local,           \* per slot: the handler's live local variables
  last,            \* what the latest step did: call issued, response sent
  nextId           \* the next project chat's number

vars == <<profileFile, history, schematic, blueprintFile, pc, req, local, last, nextId>>

Slots == 1..NumSlots

NoBody ==
  [route |-> "", message |-> Undef, mode |-> Undef, projectName |-> Undef,
   instructions |-> Undef, style |-> EmptyObj]

ChatBody(message, mode, projectName) ==
  [NoBody EXCEPT !.route = "POST /chat", !.message = message, !.mode = mode,
                 !.projectName = projectName]
SchematicBody(instructions, projectName) ==
  [NoBody EXCEPT !.route = "POST /schematic", !.instructions = instructions,
                 !.projectName = projectName]
StyleBody(style) == [NoBody EXCEPT !.route = "POST /style", !.style = style]
GetStyleBody == [NoBody EXCEPT !.route = "GET /style"]

\* trace: what the request has done so far, in order
NoLocal == [profile |-> EmptyObj, chosenMode |-> "", id |-> 0, trace |-> <<>>]

NoResp ==
  [status |-> 0, ok |-> FALSE, error |-> "", details |-> "", mode |-> "",
   reply |-> "", profile |-> EmptyObj, schematic |-> NoBlueprint]

ErrorResp(status, error, details) ==
  [NoResp EXCEPT !.status = status, !.error = error, !.details = details]
ChatOk(mode, reply) ==
  [NoResp EXCEPT !.status = 200, !.ok = TRUE, !.mode = mode, !.reply = reply]
StyleOk(profile) ==
  [NoResp EXCEPT !.status = 200, !.ok = TRUE, !.profile = Json(profile)]
SchematicOk(blueprint) ==
  [NoResp EXCEPT !.status = 200, !.ok = TRUE, !.schematic = blueprint]

\* the messages of a chat-model call
NoCall == [issued |-> FALSE, system |-> "", user |-> ""]
Call(system, user) == [issued |-> TRUE, system |-> system, user |-> user]

\* what autoMode was given and what it returned
NoRouting == [ran |-> FALSE, completion |-> Threw, mode |-> "", warned |-> FALSE]

\* a step that sends no response and issues no call leaves all of it empty;
\* req and trace are those of the request the step belongs to, completion and
\* text what the model call came back with, before the profile file before it
NoStep ==
  [req |-> NoBody, resp |-> NoResp, sent |-> NoCall, routing |-> NoRouting,
   trace |-> <<>>, completion |-> Threw, text |-> "", id |-> 0,
   before |-> NoFile]

Init ==
  /\ profileFile = NoFile
  /\ history = <<>>
  /\ schematic = NoBlueprint
  /\ blueprintFile = NoBlueprint
  /\ pc = [r \in Slots |-> "idle"]
  /\ req = [r \in Slots |-> NoBody]
  /\ local = [r \in Slots |-> NoLocal]
  /\ last = NoStep
  /\ nextId = 1

\* the response is sent and the slot is free again
Respond(r, step) ==
  /\ last' = step
  /\ pc' = [pc EXCEPT ![r] = "idle"]
  /\ req' = [req EXCEPT ![r] = NoBody]
  /\ local' = [local EXCEPT ![r] = NoLocal]

\* the request is suspended at an awaited call
Suspend(r, at, body, locals, step) ==
  /\ last' = step
  /\ pc' = [pc EXCEPT ![r] = at]
  /\ req' = [req EXCEPT ![r] = body]
  /\ local' = [local EXCEPT ![r] = locals]

(* ------------------------------ POST /chat ----------------------------- *)

\* the two appends in the wrong order
AppendExchangeSwapped(h, id, message, reply, ok1, ok2) ==
  IF ~ok1
  THEN [history |-> h, events |-> <<"append:throw">>, threw |-> TRUE]
  ELSE LET h1 == appendConversation(h, "assistant", reply, id)
       IN IF ~ok2
          THEN [history |-> h1, events |-> <<"append:assistant", "append:throw">>,
                threw |-> TRUE]
          ELSE [history |-> appendConversation(h1, "user", message, id),
                events |-> <<"append:assistant", "append:user">>, threw |-> FALSE]

\* the user turn forgotten
AppendExchangeReplyOnly(h, id, message, reply, ok1, ok2) ==
  IF ~ok1 \/ ~ok2
  THEN [history |-> h, events |-> <<"append:throw">>, threw |-> TRUE]
  ELSE [history |-> appendConversation(h, "assistant", reply, id),
        events |-> <<"append:assistant">>, threw |-> FALSE]

\* lines 116-119: the two appends, each of which the store may fail
AppendExchange(h, id, message, reply, ok1, ok2) ==
  IF ~ok1
  THEN [history |-> h, events |-> <<"append:throw">>, threw |-> TRUE]
  ELSE LET h1 == appendConversation(h, "user", message, id)
       IN IF ~ok2
          THEN [history |-> h1, events |-> <<"append:user", "append:throw">>,
                threw |-> TRUE]
          ELSE [history |-> appendConversation(h1, "assistant", reply, id),
                events |-> <<"append:user", "append:assistant">>, threw |-> FALSE]

\* lines 96-107: historyText for the request's project, the store as it is
ProjectHistoryText(projectName, h) ==
  IF Truthy(projectName) THEN HistoryText(loadProject(h)) ELSE ""

\* lines 93-114: compose the system content and issue the chat call
ChatCompose(r, body, profile, chosenMode, id, step, loadOk) ==
  LET withProject == Truthy(body.projectName)
  IN IF withProject /\ ~loadOk
     THEN Respond(r, [step EXCEPT
            !.resp = ErrorResp(500, "AI error", "Error: project store"),
            !.trace = step.trace \o <<"loadProject:throw", "console.error">>])
     ELSE LET systemContent ==
                SystemContent(basePromptForMode(chosenMode), styleInstruction(profile),
                              ProjectHistoryText(body.projectName, history))
              tr == step.trace \o (IF withProject THEN <<"loadProject">> ELSE <<>>)
                    \o <<"chat:call">>
          IN Suspend(r, "awaitReply", body,
                     [NoLocal EXCEPT !.chosenMode = chosenMode, !.id = id, !.trace = tr],
                     [step EXCEPT !.sent = Call(systemContent, body.message.s),
                                  !.trace = tr])

\* lines 84-92 and, for an explicit mode, on to the chat call
PostChat(r, body, fsOk, loadOk) ==
  /\ pc[r] = "idle"
  /\ UNCHANGED <<history, schematic, blueprintFile>>
  /\ LET step == [NoStep EXCEPT !.req = body, !.before = profileFile]
     IN IF MissingMessage(body.message)
        THEN /\ Respond(r, [step EXCEPT
                    !.resp = ErrorResp(400, "Missing 'message' string", "")])
             /\ UNCHANGED <<profileFile, nextId>>
        ELSE LET loaded == loadUserProfile(profileFile, fsOk)
                 mode == IF body.mode.t = "undefined" THEN "auto" ELSE body.mode.s
                 id == IF Truthy(body.projectName) THEN nextId ELSE 0
             IN IF loaded.threw
                THEN /\ Respond(r, [step EXCEPT
                            !.resp = ErrorResp(500, "AI error", "Error: write failed"),
                            !.trace = <<"console.error">>])
                     /\ UNCHANGED <<profileFile, nextId>>
                ELSE /\ profileFile' = loaded.file
                     /\ nextId' = IF Truthy(body.projectName) THEN nextId + 1 ELSE nextId
                     /\ IF mode = "auto"
                        THEN LET tr == loaded.events \o <<"router:call">>
                             IN Suspend(r, "awaitRouter", body,
                                        [NoLocal EXCEPT !.profile = loaded.value,
                                                        !.id = id, !.trace = tr],
                                        [step EXCEPT !.id = id, !.trace = tr,
                                                     !.sent = Call("<router prompt>",
                                                                   body.message.s)])
                        ELSE ChatCompose(r, body, loaded.value, mode, id,
                                         [step EXCEPT !.id = id, !.trace = loaded.events],
                                         loadOk)

\* the router call of autoMode comes back: lines 68-81, then 93-114
RouterReturns(r, completion, loadOk) ==
  /\ pc[r] = "awaitRouter"
  /\ UNCHANGED <<profileFile, history, schematic, blueprintFile, nextId>>
  /\ LET am == autoMode(req[r].message.s, completion)
         tr == local[r].trace
               \o <<IF completion.threw THEN "router:throw" ELSE "router:return">>
               \o (IF am.warned THEN <<"console.warn">> ELSE <<>>)
     IN ChatCompose(r, req[r], local[r].profile, am.mode, local[r].id,
                    [NoStep EXCEPT
                       !.req = req[r], !.id = local[r].id, !.trace = tr,
                       !.before = profileFile,
                       !.routing = [ran |-> TRUE, completion |-> completion,
                                    mode |-> am.mode, warned |-> am.warned]],
                    loadOk)

\* the chat call comes back: lines 111-125
ReplyReturns(r, completion, ok1, ok2) ==
  /\ pc[r] = "awaitReply"
  /\ UNCHANGED <<profileFile, schematic, blueprintFile, nextId>>
  /\ LET l == local[r]
         step == [NoStep EXCEPT !.req = req[r], !.completion = completion,
                                !.id = l.id, !.before = profileFile]
     IN IF completion.threw
        THEN /\ history' = history
             /\ Respond(r, [step EXCEPT
                    !.resp = ErrorResp(500, "AI error", "Error: chat model"),
                    !.trace = l.trace \o <<"chat:throw", "console.error">>])
        ELSE LET reply == groqChat(completion)
                 out == IF Truthy(req[r].projectName)
                        THEN AppendExchange(history, l.id, req[r].message.s, reply, ok1, ok2)
                        ELSE [history |-> history, events |-> <<>>, threw |-> FALSE]
             IN /\ history' = out.history
                /\ Respond(r, [step EXCEPT
                       !.resp = IF out.threw
                                THEN ErrorResp(500, "AI error", "Error: project store")
                                ELSE ChatOk(l.chosenMode, reply),
                       !.trace = l.trace \o <<"chat:return">> \o out.events
                                 \o (IF out.threw THEN <<"console.error">> ELSE <<>>)])

(* --------------------------- GET, POST /style -------------------------- *)

\* lines 129-137
GetStyle(r, fsOk) ==
  /\ pc[r] = "idle"
  /\ UNCHANGED <<history, schematic, blueprintFile, nextId>>
  /\ LET loaded == loadUserProfile(profileFile, fsOk)
         step == [NoStep EXCEPT !.req = GetStyleBody, !.before = profileFile]
     IN IF loaded.threw
        THEN /\ UNCHANGED profileFile
             /\ Respond(r, [step EXCEPT
                    !.resp = ErrorResp(500, "Failed to load style", ""),
                    !.trace = <<"console.error">>])
        ELSE /\ profileFile' = loaded.file
             /\ Respond(r, [step EXCEPT !.resp = StyleOk(loaded.value),
                                        !.trace = loaded.events])

\* lines 140-149
PostStyle(r, body, fsOk) ==
  /\ pc[r] = "idle"
  /\ UNCHANGED <<history, schematic, blueprintFile, nextId>>
  /\ LET saved == saveUserProfile(StyleFromBody(body.style), fsOk)
         step == [NoStep EXCEPT !.req = body, !.before = profileFile]
     IN IF saved.threw
        THEN /\ UNCHANGED profileFile
             /\ Respond(r, [step EXCEPT
                    !.resp = ErrorResp(500, "Failed to save style", ""),
                    !.trace = <<"console.error">>])
        ELSE /\ profileFile' = saved.file
             /\ Respond(r, [step EXCEPT !.resp = StyleOk(saved.value),
                                        !.trace = <<"profile:write">>])

(* ---------------------------- POST /schematic -------------------------- *)

\* what model.generateContent(prompt) and result.response.text() come to
GeminiThrew == [threw |-> TRUE, text |-> ""]
GeminiText(text) == [threw |-> FALSE, text |-> text]

\* the degraded blueprint without the model's text
ParseBlueprintNoRaw(text) ==
  LET parsed == JSONParse(text)
  IN IF parsed.ok THEN parsed.value
     ELSE Object([parseError |-> Str("SyntaxError: Unexpected token")])

\* lines 186-191
ParseBlueprint(text) ==
  LET parsed == JSONParse(text)
  IN IF parsed.ok THEN parsed.value
     ELSE Object([parseError |-> Str("SyntaxError: Unexpected token"),
                  raw |-> Str(text)])

\* baseStress handed on as the blueprint gives it, without the default
BaseStressAsGiven(stress) == OptProp(stress, "baseStress")

\* the baseStress handed to estimateStress, line 196
BaseStressOf(stress) ==
  IF Truthy(OptProp(stress, "baseStress"))
  THEN OptProp(stress, "baseStress")
  ELSE Num(DefaultBaseStress)

\* lines 193-198
Enrich(blueprint) ==
  LET stress == OptProp(blueprint, "stress")
      machines == OptProp(stress, "machines")
  IN IF Truthy(machines)
     THEN [blueprint |->
             Object(Spread(blueprint.f,
                           [stressEstimate |-> estimateStress(machines, BaseStressOf(stress))])),
           events |-> <<"estimateStress">>]
     ELSE [blueprint |-> blueprint, events |-> <<>>]

\* lines 200-203: the two sinks, each of which may fail
Persist(store, file, blueprint, okStore, okFile) ==
  IF ~okStore
  THEN [schematic |-> store, blueprintFile |-> file, threw |-> TRUE,
        events |-> <<"saveSchematic:throw">>]
  ELSE IF ~okFile
  THEN [schematic |-> blueprint, blueprintFile |-> file, threw |-> TRUE,
        events |-> <<"saveSchematic", "saveBlueprintFile:throw">>]
  ELSE [schematic |-> blueprint, blueprintFile |-> blueprint, threw |-> FALSE,
        events |-> <<"saveSchematic", "saveBlueprintFile">>]

\* lines 152-183
PostSchematic(r, body) ==
  /\ pc[r] = "idle"
  /\ UNCHANGED <<profileFile, history, schematic, blueprintFile, nextId>>
  /\ LET step == [NoStep EXCEPT !.req = body, !.before = profileFile]
     IN IF MissingInstructions(body.instructions)
        THEN Respond(r, [step EXCEPT
               !.resp = ErrorResp(400, "Missing 'instructions' string", "")])
        ELSE Suspend(r, "awaitBlueprint", body,
                     [NoLocal EXCEPT !.trace = <<"gemini:call">>],
                     [step EXCEPT !.trace = <<"gemini:call">>])

\* the blueprint call comes back: lines 184-209
BlueprintReturns(r, result, okStore, okFile) ==
  /\ pc[r] = "awaitBlueprint"
  /\ UNCHANGED <<profileFile, history, nextId>>
  /\ LET step == [NoStep EXCEPT !.req = req[r], !.text = result.text,
                                !.before = profileFile]
     IN IF result.threw
        THEN /\ UNCHANGED <<schematic, blueprintFile>>
             /\ Respond(r, [step EXCEPT
                    !.resp = ErrorResp(500, "Schematic AI error", "Error: blueprint model"),
                    !.trace = local[r].trace \o <<"gemini:throw", "console.error">>])
        ELSE LET enriched == Enrich(ParseBlueprint(result.text))
                 out == IF Truthy(req[r].projectName)
                        THEN Persist(schematic, blueprintFile, enriched.blueprint,
                                     okStore, okFile)
                        ELSE [schematic |-> schematic, blueprintFile |-> blueprintFile,
                              threw |-> FALSE, events |-> <<>>]
             IN /\ schematic' = out.schematic
                /\ blueprintFile' = out.blueprintFile
                /\ Respond(r, [step EXCEPT
                       !.resp = IF out.threw
                                THEN ErrorResp(500, "Schematic AI error",
                                               "Error: project store")
                                ELSE SchematicOk(enriched.blueprint),
                       !.trace = local[r].trace \o <<"gemini:return">>
                                 \o enriched.events \o out.events
                                 \o (IF out.threw THEN <<"console.error">> ELSE <<>>)])

(* ------------------------------- inputs -------------------------------- *)

\* a message longer than the history truncation; the heuristic finds no keyword
LongMessage == Repeat("x", HistoryContentMax + LongExtra)

\* requests without a project, for the classification of the message
ClassifyBodies ==
  {ChatBody(Str("A FACTORY on Forge"), Undef, Undef),
   ChatBody(Str("Gradle for Create"), Str("auto"), Undef),
   ChatBody(Str("Fabric or kinetic?"), Str("auto"), Undef),
   ChatBody(Str("I like Create"), Undef, Undef),
   ChatBody(Str("use the FABRIC loader"), Undef, Undef),
   ChatBody(Str("hello"), Str("create"), Undef),
   ChatBody(Undef, Str("auto"), Undef)}

RouterCompletions ==
  {Threw, Content(Undef), Content(Null), Content(Str(""))}
  \cup {Content(Str(x)) : x \in {RouterCreate, RouterPro, RouterGeneral, RouterBanana,
                                  RouterNoMode, RouterNull, RouterNumber, RouterProse}}

\* requests on a project, for the history
ChatBodies ==
  {ChatBody(Str(LongMessage), Str("auto"), Str("p1")),
   ChatBody(Str(LongMessage), Str("pro"), Str("p1")),
   ChatBody(Str("hello"), Undef, Undef),
   ChatBody(Str(""), Str("auto"), Str("p1")),
   ChatBody(Num(5), Undef, Str("p1"))}

ReplyCompletions ==
  {Threw, Content(Undef), Content(Str("")), Content(Str("Use a water wheel."))}

StyleBodies ==
  {StyleBody(EmptyObj),
   StyleBody([tone |-> Str("blunt")]),
   StyleBody([tone |-> Str("formal"), emojis |-> Str("none")]),
   StyleBody([detail |-> Str("high")]),
   StyleBody([emojis |-> Str("many")]),
   StyleBody([formatting |-> Str("plain"), detail |-> Str("low")]),
   StyleBody([tone |-> Str("blunt"), detail |-> Str("low"), emojis |-> Str("none"),
              formatting |-> Str("plain")])}

SchematicBodies ==
  {SchematicBody(Str("a water wheel mill"), Undef),
   SchematicBody(Str("a water wheel mill"), Str("p1")),
   SchematicBody(Undef, Undef),
   SchematicBody(Str(""), Str("p1")),
   SchematicBody(Num(7), Str("p1"))}

BlueprintResults ==
  {GeminiThrew}
  \cup {GeminiText(x) : x \in {BpFull, BpNoBase, BpZeroBase, BpZeroMachines,
                               BpNoMachines, BpProse, BpTruncated, RouterNull}}

\* the inputs of the runs in which requests overlap
OverlapChatBodies ==
  {ChatBody(Str("KINETIC stress?"), Str("auto"), Str("p1")),
   ChatBody(Str("hello"), Str("create"), Str("p1")),
   ChatBody(Undef, Undef, Str("p1")),
   ChatBody(Str(""), Str("auto"), Str("p1")),
   ChatBody(Num(5), Str("create"), Undef)}
OverlapRouterCompletions == {Content(Str(RouterPro))}
OverlapReplyCompletions == {Threw, Content(Str("Use a water wheel."))}
OverlapSchematicBodies ==
  {SchematicBody(Str("a water wheel mill"), Undef),
   SchematicBody(Str(""), Str("p1")),
   SchematicBody(Num(7), Str("p1")),
   SchematicBody(Undef, Undef)}
OverlapBlueprintResults == {GeminiThrew, GeminiText(BpProse)}

\* the outcomes an fs or store call can have: a call that is not made has one
Outcomes(made) == IF made THEN BOOLEAN ELSE {TRUE}

(* --------------------------- specifications ---------------------------- *)

ChatSteps(slots, bodies, routers, replies, maxChats) ==
  \E r \in slots :
    \/ \E body \in {b \in bodies : Truthy(b.projectName) => nextId <= maxChats} :
         \E fsOk \in Outcomes(profileFile.st = "missing"),
            loadOk \in Outcomes(Truthy(body.projectName)) :
           PostChat(r, body, fsOk, loadOk)
    \/ \E completion \in routers, loadOk \in Outcomes(Truthy(req[r].projectName)) :
         RouterReturns(r, completion, loadOk)
    \/ \E completion \in replies :
         \E ok1 \in Outcomes(Truthy(req[r].projectName)) :
           \E ok2 \in Outcomes(Truthy(req[r].projectName) /\ ok1) :
             ReplyReturns(r, completion, ok1, ok2)

StyleSteps(slots, bodies) ==
  \E r \in slots :
    \/ \E fsOk \in Outcomes(profileFile.st = "missing") : GetStyle(r, fsOk)
    \/ \E body \in bodies, fsOk \in BOOLEAN : PostStyle(r, body, fsOk)

SchematicSteps(slots, bodies, results) ==
  \E r \in slots :
    \/ \E body \in bodies : PostSchematic(r, body)
    \/ \E result \in results :
         \E okStore \in Outcomes(Truthy(req[r].projectName)) :
           \E okFile \in Outcomes(Truthy(req[r].projectName) /\ okStore) :
             BlueprintReturns(r, result, okStore, okFile)

\* requests of both asynchronous routes overlapping in every way the event
\* loop allows: a request is suspended only at its awaited model calls
Next ==
  \/ ChatSteps(Slots, OverlapChatBodies, OverlapRouterCompletions, OverlapReplyCompletions,
               MaxOverlapChats)
  \/ SchematicSteps(Slots, OverlapSchematicBodies, OverlapBlueprintResults)

\* one route at a time, one request after the other, over the full inputs
ClassifyNext ==
  ChatSteps({1}, ClassifyBodies, RouterCompletions, OverlapReplyCompletions, MaxProjectChats)
ChatNext ==
  ChatSteps({1}, ChatBodies, OverlapRouterCompletions, ReplyCompletions, MaxProjectChats)
StyleNext == StyleSteps({1}, StyleBodies)
SchematicNext == SchematicSteps({1}, SchematicBodies, BlueprintResults)

\* the style file may have been damaged before the server starts
InitStyle ==
  /\ profileFile \in {NoFile, CorruptFile}
  /\ history = <<>>
  /\ schematic = NoBlueprint
  /\ blueprintFile = NoBlueprint
  /\ pc = [r \in Slots |-> "idle"]
  /\ req = [r \in Slots |-> NoBody]
  /\ local = [r \in Slots |-> NoLocal]
  /\ last = NoStep
  /\ nextId = 1

Spec == Init /\ [][Next]_vars
SpecClassify == Init /\ [][ClassifyNext]_vars
SpecChat == Init /\ [][ChatNext]_vars
SpecStyle == InitStyle /\ [][StyleNext]_vars
SpecSchematic == Init /\ [][SchematicNext]_vars



(* ------------------------------- claims -------------------------------- *)

Has(tr, e) == \E i \in 1..Len(tr) : tr[i] = e

\* the latest step sent a response
Responded == last.resp.status # 0

\* the router answers that are no recognized classification: the call threw,
\* no content, text that is not JSON, JSON that is no object, an object
\* whose mode is none of the three
UnusableRouterCompletions ==
  {Threw, Content(Undef), Content(Null), Content(Str("")),
   Content(Str(RouterProse)), Content(Str(RouterNull)), Content(Str(RouterNumber)),
   Content(Str(RouterBanana)), Content(Str(RouterNoMode))}

\* what the keyword heuristic is to give for the messages classified here
KeywordOracle(message) ==
  CASE message = "A FACTORY on Forge" -> "create"
    [] message = "Gradle for Create" -> "pro"
    [] message = "Fabric or kinetic?" -> "create"
    [] message = "I like Create" -> "general"
    [] message = "use the FABRIC loader" -> "pro"
    [] message = "KINETIC stress?" -> "create"
    [] message = LongMessage -> "general"

\* C1: classification with mode "auto" always yields create, pro or general
\* and never throws (the handler goes on to the chat call, or fails on the
\* project store, never on the classification); when the router call threw
\* or its answer was unusable the result is the keyword heuristic's result
\* for the lowercased message
C1_AutoModeTotal ==
  last.routing.ran =>
    /\ last.routing.mode \in Modes
    /\ last.sent.issued \/ Has(last.trace, "loadProject:throw")
    /\ last.sent.issued => last.resp.status = 0
    /\ last.routing.completion \in UnusableRouterCompletions
         => last.routing.mode = KeywordOracle(last.req.message.s)

C1_Witness ==
  /\ last.routing.ran
  /\ last.routing.completion = Content(Str(RouterNull))
  /\ last.req.message = Str("A FACTORY on Forge")
  /\ last.routing.mode = "create"
  /\ last.sent.issued

\* C9: every failure of the model-based classification (the call throwing,
\* malformed JSON, an unrecognized mode value) is logged as a warning before
\* the keyword fallback result is returned
C9_EveryFailureWarned ==
  (last.routing.ran /\ last.routing.completion \in UnusableRouterCompletions)
    => Has(last.trace, "console.warn")

\* the model's content counts as no content: absent, null or empty
NoContent(completion) == completion.content \in {Undef, Null, Str("")}

\* C7: when the chat model returns no content (absent or empty) the reply
\* sent, and the assistant turn appended, is "(no reply)"; a successful
\* chat response never carries an empty reply
C7_NoEmptyReply ==
  (last.resp.ok /\ last.req.route = "POST /chat") =>
    /\ last.resp.reply # ""
    /\ NoContent(last.completion) =>
         /\ last.resp.reply = "(no reply)"
         /\ Truthy(last.req.projectName) =>
              history[Len(history)].content = "(no reply)"

\* the latest step issued the chat call of a chat request (not the router's)
ChatCallIssued ==
  /\ last.sent.issued
  /\ Len(last.trace) > 0
  /\ last.trace[Len(last.trace)] = "chat:call"

First200(text) == IF Len(text) > 200 THEN SubSeq(text, 1, 200) ELSE text

RECURSIVE LinesFrom(_, _)
\* the turns i, i+1, ... of h, one line each, every line after a newline
LinesFrom(h, i) ==
  IF i > Len(h) THEN ""
  ELSE "\n[" \o h[i].role \o "] " \o First200(h[i].content) \o LinesFrom(h, i + 1)

\* the history block the claim describes for a history of at least one turn
BlockOf(h) ==
  "Recent project messages:" \o LinesFrom(h, IF Len(h) > 4 THEN Len(h) - 3 ELSE 1)

EndsWith(text, suffix) ==
  /\ Len(text) >= Len(suffix)
  /\ SubSeq(text, Len(text) - Len(suffix) + 1, Len(text)) = suffix

\* C8: the system content has no history block when the project name is
\* absent or the history is empty; otherwise it ends with one block that
\* holds the last 4 turns (all of them when there are 1 to 4), in order, one
\* line per turn as "[role] content", each content cut to 200 characters
C8_HistoryBlock ==
  ChatCallIssued =>
    LET sys == last.sent.system
    IN IF Truthy(last.req.projectName) /\ Len(history) > 0
       THEN /\ EndsWith(sys, "\n\n" \o BlockOf(history))
            /\ ~Includes(SubSeq(sys, 1, Len(sys) - Len(BlockOf(history))),
                         "Recent project messages:")
       ELSE /\ ~Includes(sys, "Recent project messages:")
            /\ ~Includes(sys, "[user]")
            /\ ~Includes(sys, "[assistant]")

C8_Witness ==
  /\ ChatCallIssued
  /\ Truthy(last.req.projectName)
  /\ Len(history) > 4
  /\ \E i \in (Len(history) - 3)..Len(history) : Len(history[i].content) > 200
  /\ \E i \in (Len(history) - 3)..Len(history) : Len(history[i].content) <= 200

\* the roles of the turns request id has in the history, in order
RolesOf(id) ==
  LET turns == SelectSeq(history, LAMBDA t : t.id = id)
  IN [i \in 1..Len(turns) |-> turns[i].role]

\* every append event of the trace comes after the chat call returned
AppendsAfterReply(tr) ==
  \A i \in 1..Len(tr) :
    tr[i] \in {"append:user", "append:assistant", "append:throw"}
      => \E j \in 1..(i - 1) : tr[j] = "chat:return"

\* the latest step answered a chat request that carries a project name
ProjectChatAnswered ==
  /\ Responded
  /\ last.req.route = "POST /chat"
  /\ Truthy(last.req.projectName)
  /\ last.id # 0

\* C2 as stated: the appends of a chat request with a project name are none
\* or exactly two, user then assistant, both after the reply is obtained;
\* none if the chat-model call or an earlier step fails
C2_NoneOrTwo ==
  ProjectChatAnswered =>
    /\ RolesOf(last.id) \in {<<>>, <<"user", "assistant">>}
    /\ AppendsAfterReply(last.trace)
    /\ ~Has(last.trace, "chat:return") => RolesOf(last.id) = <<>>

\* C2 amended: the appends are none, the user turn alone (only when the
\* store fails the assistant-turn append, and the request then answers with
\* an error), or exactly two, user then assistant; all of them after the
\* reply is obtained; none if the chat-model call or an earlier step fails;
\* a request answered ok:true has appended exactly the two, its message and
\* the reply; a request still in flight has appended nothing
C2_AppendsAfterReply ==
  /\ \A r \in Slots : local[r].id # 0 => RolesOf(local[r].id) = <<>>
  /\ ProjectChatAnswered =>
       /\ RolesOf(last.id) \in {<<>>, <<"user">>, <<"user", "assistant">>}
       /\ RolesOf(last.id) = <<"user">> =>
            /\ ~last.resp.ok
            /\ Has(last.trace, "append:throw")
            /\ history[Len(history)].content = last.req.message.s
       /\ AppendsAfterReply(last.trace)
       /\ ~Has(last.trace, "chat:return") => RolesOf(last.id) = <<>>
       /\ last.resp.ok =>
            /\ RolesOf(last.id) = <<"user", "assistant">>
            /\ history[Len(history) - 1].content = last.req.message.s
            /\ history[Len(history)].content = last.resp.reply

C2_Witness ==
  /\ ProjectChatAnswered
  /\ last.resp.ok
  /\ RolesOf(last.id) = <<"user", "assistant">>
  /\ \E r \in Slots : pc[r] = "awaitReply" /\ local[r].id # 0

\* C10 as stated: with requests suspended only at their awaited model calls,
\* the two turns of a request are adjacent, so the history is always a
\* sequence of complete (user, assistant) pairs
C10_CompletePairs ==
  \A i \in 1..Len(history) :
    /\ history[i].role = "user" =>
         /\ i < Len(history)
         /\ history[i + 1].role = "assistant"
         /\ history[i + 1].id = history[i].id
    /\ history[i].role = "assistant" =>
         /\ i > 1
         /\ history[i - 1].role = "user"
         /\ history[i - 1].id = history[i].id

\* C10 amended: the two turns of a request are adjacent, no other request's
\* turn between them; the history is a sequence of complete (user,
\* assistant) pairs and of single user turns, each single one the only turn
\* of its request (the request whose assistant-turn append failed)
C10_PairsAdjacent ==
  \A i \in 1..Len(history) :
    /\ history[i].role = "user" =>
         \/ /\ i < Len(history)
            /\ history[i + 1].role = "assistant"
            /\ history[i + 1].id = history[i].id
         \/ RolesOf(history[i].id) = <<"user">>
    /\ history[i].role = "assistant" =>
         /\ i > 1
         /\ history[i - 1].role = "user"
         /\ history[i - 1].id = history[i].id
         /\ RolesOf(history[i].id) = <<"user", "assistant">>

\* two requests overlapped: the one that started later was answered first
C10_Witness ==
  /\ Len(history) >= 4
  /\ history[1].id = 2 /\ history[2].id = 2
  /\ history[3].id = 1 /\ history[4].id = 1
  /\ history[2].role = "assistant" /\ history[4].role = "assistant"

\* missing, empty or not a string
Unusable(v) == v.t # "string" \/ v.s = ""

\* the rejected request and the field it must carry
Rejected(route, field) ==
  /\ Responded
  /\ last.req.route = route
  /\ Unusable(last.req[field])

\* C3: a chat request without a usable message and a schematic request
\* without usable instructions are answered with the ok:false validation
\* error; no model call is made for them (none is left in flight, none is in
\* their trace) and the step that answers them writes neither the history
\* nor the schematic stores
C3_ValidationRejects ==
  /\ [](/\ Rejected("POST /chat", "message")
             => /\ last.resp = ErrorResp(400, "Missing 'message' string", "")
                /\ last.trace = <<>>
                /\ ~last.sent.issued
        /\ Rejected("POST /schematic", "instructions")
             => /\ last.resp = ErrorResp(400, "Missing 'instructions' string", "")
                /\ last.trace = <<>>
                /\ ~last.sent.issued
        /\ \A r \in Slots :
             /\ req[r].route = "POST /chat" => ~Unusable(req[r].message)
             /\ req[r].route = "POST /schematic" => ~Unusable(req[r].instructions))
  /\ [][(last'.resp.status = 400)
          => UNCHANGED <<history, schematic, blueprintFile, pc, req, local>>]_vars

C3_Witness ==
  /\ Rejected("POST /schematic", "instructions")
  /\ last.req.instructions = Num(7)
  /\ last.resp.status = 400
  /\ \E r \in Slots : pc[r] = "awaitReply"

\* the latest step took the blueprint model's text and answered the request
BlueprintAnswered ==
  /\ Responded
  /\ last.req.route = "POST /schematic"
  /\ Has(last.trace, "gemini:return")

NotJson == {BpProse, BpTruncated}

\* exactly the two fields parseError and raw, raw the model's text
IsDegraded(blueprint, text) ==
  /\ blueprint.t = "object"
  /\ DOMAIN blueprint.f = {"parseError", "raw"}
  /\ blueprint.f["raw"] = Str(text)
  /\ blueprint.f["parseError"].t = "string"

\* C4 as stated: on text that is not JSON the request succeeds with a
\* Blueprint of exactly parseError and raw, and that Blueprint is what is
\* persisted when a project name was supplied
C4_AlwaysSucceeds ==
  (BlueprintAnswered /\ last.text \in NotJson) =>
    /\ last.resp.ok
    /\ IsDegraded(last.resp.schematic, last.text)
    /\ Truthy(last.req.projectName) =>
         /\ schematic = last.resp.schematic
         /\ blueprintFile = last.resp.schematic

\* C4 amended: on text that is not JSON the request fails only if one of the
\* two sinks throws; otherwise it succeeds with a Blueprint of exactly
\* parseError and raw, raw the model's text, no stressEstimate; whatever the
\* request persisted, to either sink, is that degraded Blueprint
C4_Degrades ==
  (BlueprintAnswered /\ last.text \in NotJson) =>
    /\ ~last.resp.ok =>
         \/ Has(last.trace, "saveSchematic:throw")
         \/ Has(last.trace, "saveBlueprintFile:throw")
    /\ last.resp.ok =>
         /\ IsDegraded(last.resp.schematic, last.text)
         /\ Truthy(last.req.projectName) =>
              /\ schematic = last.resp.schematic
              /\ blueprintFile = last.resp.schematic
    /\ Has(last.trace, "saveSchematic") => IsDegraded(schematic, last.text)
    /\ Has(last.trace, "saveBlueprintFile") => IsDegraded(blueprintFile, last.text)
    /\ ~Has(last.trace, "estimateStress")

C4_Witness ==
  /\ BlueprintAnswered
  /\ last.text = BpTruncated
  /\ last.resp.ok
  /\ Truthy(last.req.projectName)
  /\ IsDegraded(blueprintFile, BpTruncated)

\* the texts that parse with a truthy stress.machines, and the arguments the
\* claim gives the estimate for each
WithMachines == {BpFull, BpNoBase, BpZeroBase}
EstimateOracle(text) ==
  CASE text = BpFull -> estimateStress(Num(4), Num(256))
    [] text = BpNoBase -> estimateStress(Num(4), Num(256))
    [] text = BpZeroBase -> estimateStress(Num(2), Num(256))

\* C5: stressEstimate is computed exactly when the text parsed and its
\* stress.machines is truthy, and is then estimate(machines, b), b the
\* baseStress if that is truthy and 256 otherwise
C5_StressEstimate ==
  BlueprintAnswered =>
    /\ Has(last.trace, "estimateStress") <=> last.text \in WithMachines
    /\ (last.resp.ok /\ last.text \in WithMachines) =>
         /\ "stressEstimate" \in DOMAIN last.resp.schematic.f
         /\ last.resp.schematic.f["stressEstimate"] = EstimateOracle(last.text)
    /\ (last.resp.ok /\ last.text \notin WithMachines) =>
         OptProp(last.resp.schematic, "stressEstimate") = Undef
    /\ (Has(last.trace, "saveSchematic") /\ last.text \in WithMachines) =>
         OptProp(schematic, "stressEstimate") = EstimateOracle(last.text)

C5_Witness ==
  /\ BlueprintAnswered
  /\ last.text = BpZeroBase
  /\ last.resp.ok
  /\ last.resp.schematic.f["stressEstimate"] = estimateStress(Num(2), Num(256))

\* the profile as last saved, the defaults if none was saved
PriorProfile == IF last.before.st = "json" THEN last.before.obj ELSE defaultProfile

\* C6: a style update returns and persists a profile in which each supplied
\* field has the new value and every other field is unchanged from the
\* prior save
C6_MergePreserves ==
  (Responded /\ last.req.route = "POST /style" /\ last.resp.ok) =>
    \A f \in Fields :
      IF f \in DOMAIN last.req.style
      THEN /\ Get(last.resp.profile, f) = last.req.style[f]
           /\ Get(profileFile.obj, f) = last.req.style[f]
      ELSE /\ Get(last.resp.profile, f) = Get(PriorProfile, f)
           /\ Get(profileFile.obj, f) = Get(PriorProfile, f)

====
